---- MODULE Spec2Model ----
(***************************************************************************)
(* A model of the electrical sizing engine of WattBreaker                  *)
(* (src/src/lib/core/mcbCalc.ts): getPowerLabel, calculatePower and        *)
(* suggestMCBSize, called by a caller that may hold a custom rating array. *)
(*                                                                         *)
(* Numbers.  The code computes with IEEE doubles.  The only irrational     *)
(* constant it uses is Math.sqrt(3), so every value that calculatePower    *)
(* and suggestMCBSize can produce from rational inputs lies in the field   *)
(* Q(sqrt 3).  A number is modelled exactly as a record [a, b, d] standing *)
(* for (a + b*sqrt(3)) / d with d > 0 and gcd(a, b, d) = 1; products,      *)
(* quotients and comparisons are those of the reals (rounding of doubles   *)
(* is not modelled).  The wattages given to getPowerLabel reach 10^12,     *)
(* beyond TLC's integers, and are modelled as integers written in base     *)
(* 10^6: [hi, lo] stands for hi * 10^6 + lo with 0 <= lo < 10^6.           *)
(*                                                                         *)
(* An optional argument is a sequence: << >> when omitted (undefined),     *)
(* <<x>> when given.                                                       *)
(***************************************************************************)
EXTENDS Integers, Sequences, FiniteSets

VARIABLES
    heap,           \* the arrays alive in the process: both built-in tables and the caller's array
    customLiteral,  \* the elements the caller wrote when it created its array
    pc,             \* "idle": the caller is about to call; "returned": a call has just ended
    call,           \* the call just made: the operation and its arguments
    ret,            \* its outcome: ret.value = <<v>> when it returned v, ret.error = <<e>> when it threw e
    earlier,        \* a call made before and its outcome, kept by a caller that compares outcomes
    ui              \* the state of the Calculator component, and what its last Calculate did

vars == <<heap, customLiteral, pc, call, ret, earlier, ui>>

----------------------------------------------------------------------------
(* Bounds *)

\* the longest custom rating array the caller creates
MaxCustomLen == 3

----------------------------------------------------------------------------
(* Numbers of Q(sqrt 3) *)

Abs(n) == IF n < 0 THEN -n ELSE n

RECURSIVE Gcd(_, _)
Gcd(m, n) == IF n = 0 THEN m ELSE Gcd(n, m % n)

\* (a + b*sqrt(3)) / d in lowest terms, with a positive denominator
Norm(a, b, d) ==
    LET g == Gcd(Gcd(Abs(a), Abs(b)), Abs(d))
        s == IF d < 0 THEN -g ELSE g
    IN  [a |-> a \div s, b |-> b \div s, d |-> d \div s]

\* the rational n / d
Q(n, d) == Norm(n, 0, d)

\* the integer n
N(n) == Norm(n, 0, 1)

\* Math.sqrt(3)
Sqrt3 == [a |-> 0, b |-> 1, d |-> 1]

\* x * y
Mul(x, y) == Norm(x.a * y.a + 3 * x.b * y.b, x.a * y.b + x.b * y.a, x.d * y.d)

\* x / y for y # 0: x * conj(y) / (y * conj(y))
Div(x, y) ==
    Norm((x.a * y.a - 3 * x.b * y.b) * y.d,
         (x.b * y.a - x.a * y.b) * y.d,
         x.d * (y.a * y.a - 3 * y.b * y.b))

\* x - y
Sub(x, y) == Norm(x.a * y.d - y.a * x.d, x.b * y.d - y.b * x.d, x.d * y.d)

\* The sign of A/B - sqrt(3) for A >= 0 and B > 0, by comparing the continued
\* fraction of A/B with that of sqrt(3) = [1; 1, 2, 1, 2, ...]; A/B is rational,
\* so the result is never 0.  k is the index of the partial quotient compared.
RECURSIVE CfCmp(_, _, _)
CfCmp(A, B, k) ==
    LET e == IF k >= 2 /\ k % 2 = 0 THEN 2 ELSE 1
        q == A \div B
        r == A % B
    IN  IF q < e THEN -1
        ELSE IF q > e THEN 1
        ELSE IF r = 0 THEN -1
        ELSE -CfCmp(B, r, k + 1)

\* the sign of x: -1, 0 or 1
Sign(x) ==
    IF x.a = 0 /\ x.b = 0 THEN 0
    ELSE IF x.a >= 0 /\ x.b >= 0 THEN 1
    ELSE IF x.a <= 0 /\ x.b <= 0 THEN -1
    ELSE IF x.a > 0 THEN CfCmp(x.a, -x.b, 0)
    ELSE -CfCmp(-x.a, x.b, 0)

\* x <= y, x < y, x >= y, x > y
Leq(x, y) == Sign(Sub(x, y)) <= 0
Lt(x, y) == Sign(Sub(x, y)) < 0
Geq(x, y) == Leq(y, x)
Gt(x, y) == Lt(y, x)

\* Number.prototype.toFixed(2) of x >= 0, as the integer count of hundredths it
\* prints: the n with n - 1/2 <= 100 x < n + 1/2, found by bisection between
\* lo (n = lo is not too large) and hi (n = hi is too large).
RECURSIVE RoundHundredths(_, _, _)
RoundHundredths(x, lo, hi) ==
    IF hi - lo <= 1 THEN lo
    ELSE LET mid == (lo + hi) \div 2
         IN  IF Sign(Norm(200 * x.a + x.d - 2 * x.d * mid, 200 * x.b, 1)) >= 0
             THEN RoundHundredths(x, mid, hi)
             ELSE RoundHundredths(x, lo, mid)

toFixed2(x) ==
    RoundHundredths(x, 0, 100 * ((Abs(x.a) + 2 * Abs(x.b)) \div x.d + 1) + 1)

----------------------------------------------------------------------------
(* Optional arguments *)

Absent == << >>
Some(x) == <<x>>

\* the value of an optional argument, or its default when omitted
OrDefault(opt, dflt) == IF opt = Absent THEN dflt ELSE opt[1]

----------------------------------------------------------------------------
(* Outcomes of a call *)

\* the call returned v
Return(v) == [value |-> Some(v), error |-> Absent]

\* the call threw the Error e, and returned nothing
Throw(e) == [value |-> Absent, error |-> Some(e)]

\* The failure kind of a thrown Error.  The code throws plain Errors that differ
\* by their message only: the three precondition messages are InvalidInput, the
\* "exceeds available MCB sizes" message is OutOfRange.
ErrorKind(e) ==
    IF e.message = "Required current exceeds available MCB sizes" THEN "OutOfRange"
    ELSE "InvalidInput"

----------------------------------------------------------------------------
(* Constants of the program *)

IEC_60898_1 == "IEC_60898-1"
IEC_60947_2 == "IEC_60947-2"

MCBStandard == {IEC_60898_1, IEC_60947_2}

\* the built-in rating tables as the module creates them
MCB_RATING_PRESETS ==
    [standard \in MCBStandard |->
        IF standard = IEC_60898_1
        THEN <<N(1), N(2), N(4), N(6), N(10), N(13), N(16), N(20), N(25), N(32),
               N(40), N(50), N(63), N(80), N(100), N(125)>>
        ELSE <<Q(1, 2), N(1), N(2), N(4), N(6), N(10), N(16), N(20), N(25), N(32),
               N(40), N(50), N(63), N(100), N(160), N(250), N(400), N(630),
               N(800), N(1000), N(1600), N(2500), N(3200), N(4000), N(5000),
               N(6300)>>]

----------------------------------------------------------------------------
(* getPowerLabel *)

\* the integer hi * 10^6 + lo
Big(hi, lo) == [hi |-> hi, lo |-> lo]

\* p >= q for integers in base 10^6
BigGeq(p, q) == p.hi > q.hi \/ (p.hi = q.hi /\ p.lo >= q.lo)

\* a condition of `c ? x : y`: undefined is falsy
Truthy(opt) == OrDefault(opt, FALSE)

\* the ladder with `>` for `>=`: a threshold falls in the tier below
getPowerLabelExclusive(power, longLabel) ==
    IF BigGeq(power, Big(1000000, 1)) THEN (IF Truthy(longLabel) THEN "Tera Watts" ELSE "TW")
    ELSE IF BigGeq(power, Big(1000, 1)) THEN (IF Truthy(longLabel) THEN "Giga Watts" ELSE "GW")
    ELSE IF BigGeq(power, Big(1, 1)) THEN (IF Truthy(longLabel) THEN "Mega Watts" ELSE "MW")
    ELSE IF BigGeq(power, Big(0, 1001)) THEN (IF Truthy(longLabel) THEN "Kilo Watts" ELSE "kW")
    ELSE (IF Truthy(longLabel) THEN "Watts" ELSE "W")

getPowerLabel(power, longLabel) ==
    IF BigGeq(power, Big(1000000, 0)) THEN (IF Truthy(longLabel) THEN "Tera Watts" ELSE "TW")
    ELSE IF BigGeq(power, Big(1000, 0)) THEN (IF Truthy(longLabel) THEN "Giga Watts" ELSE "GW")
    ELSE IF BigGeq(power, Big(1, 0)) THEN (IF Truthy(longLabel) THEN "Mega Watts" ELSE "MW")
    ELSE IF BigGeq(power, Big(0, 1000)) THEN (IF Truthy(longLabel) THEN "Kilo Watts" ELSE "kW")
    ELSE (IF Truthy(longLabel) THEN "Watts" ELSE "W")

----------------------------------------------------------------------------
(* calculatePower *)

\* a field of `options ?? {}`: undefined when the options or the field are omitted
Field(options, f) == IF options = Absent THEN Absent ELSE options[1][f]

\* the first guard with `powerFactor < 0`: a power factor of 0 passes
NotAllPositiveButZeroFactor(voltage, current, powerFactor) ==
    Leq(voltage, N(0)) \/ Leq(current, N(0)) \/ Lt(powerFactor, N(0))

\* the first guard: some input is not positive
NotAllPositive(voltage, current, powerFactor) ==
    Leq(voltage, N(0)) \/ Leq(current, N(0)) \/ Leq(powerFactor, N(0))

\* the second guard
PowerFactorTooLarge(powerFactor) == Gt(powerFactor, N(1))

\* `voltage /= Math.sqrt(3)`: the factor applied the wrong way round
PhaseVoltageDivided(voltage, isThreePhase) ==
    IF isThreePhase THEN Div(voltage, Sqrt3) ELSE voltage

\* `if (isThreePhase) voltage *= Math.sqrt(3)`
PhaseVoltage(voltage, isThreePhase) ==
    IF isThreePhase THEN Mul(voltage, Sqrt3) ELSE voltage

calculatePower(voltage, current, powerFactorArg, options) ==
    LET powerFactor == OrDefault(powerFactorArg, N(1))
        isThreePhase == OrDefault(Field(options, "isThreePhase"), FALSE)
    IN  IF NotAllPositive(voltage, current, powerFactor)
        THEN Throw([message |-> "All input values must be positive numbers"])
        ELSE IF PowerFactorTooLarge(powerFactor)
        THEN Throw([message |-> "Power factor value cannot be greater than 1"])
        ELSE Return(Mul(Mul(PhaseVoltage(voltage, isThreePhase), current), powerFactor))

----------------------------------------------------------------------------
(* suggestMCBSize *)

\* the arrays that outlive a call: the two built-in tables and the caller's array
Refs == MCBStandard \cup {"customRatings"}

\* the guard with `wattage < 0`: a wattage of 0 passes
NotPositiveButZeroWattage(wattage, voltage) == Lt(wattage, N(0)) \/ Leq(voltage, N(0))

\* the guard: wattage or voltage is not positive
NotPositive(wattage, voltage) == Leq(wattage, N(0)) \/ Leq(voltage, N(0))

\* `wattage / voltage / (isThreePhase ? Math.sqrt(3) : 1)`: three-phase lowers
\* the current
CurrentRequiredDivided(wattage, voltage, isThreePhase) ==
    Div(Div(wattage, voltage), IF isThreePhase THEN Sqrt3 ELSE N(1))

\* `(isThreePhase ? Math.sqrt(3) : 1) * wattage / voltage`
CurrentRequired(wattage, voltage, isThreePhase) ==
    Div(Mul(IF isThreePhase THEN Sqrt3 ELSE N(1), wattage), voltage)

\* `MCB_RATING_PRESETS[standard]`: the custom ratings are ignored
RatingsRefOfStandard(standard, customRatings) == standard

\* `customRatings ?? MCB_RATING_PRESETS[standard]`: the array the call reads
RatingsRef(standard, customRatings) == OrDefault(customRatings, standard)

\* the comparator `(a, b) => a - b`
Compare(a, b) == Sign(Sub(a, b))

\* xs, sorted by Compare, with x put after every element that is not larger
RECURSIVE Insert(_, _)
Insert(xs, x) ==
    IF xs = << >> THEN <<x>>
    ELSE IF Compare(xs[Len(xs)], x) <= 0 THEN Append(xs, x)
    ELSE Append(Insert(SubSeq(xs, 1, Len(xs) - 1), x), xs[Len(xs)])

\* no sort: the elements in the order given
ArrayAsGiven(xs) == xs

\* Array.prototype.sort with Compare: the elements in ascending order
RECURSIVE ArraySort(_)
ArraySort(xs) ==
    IF xs = << >> THEN << >>
    ELSE Insert(ArraySort(SubSeq(xs, 1, Len(xs) - 1)), xs[Len(xs)])

\* `ratings.sort(...)`: the array at ref is sorted in place, and sortedRatings is
\* that same array
SortedInPlace(h, ref) ==
    [r \in Refs \cup {"sortedRatings"} |->
        IF r \in {ref, "sortedRatings"} THEN ArraySort(h[ref]) ELSE h[r]]

\* `ratings.splice(0).sort(...)`: the elements are moved out of the array at ref,
\* which is left empty
SortedBySplice(h, ref) ==
    [r \in Refs \cup {"sortedRatings"} |->
        IF r = "sortedRatings" THEN ArraySort(h[ref])
        ELSE IF r = ref THEN << >> ELSE h[r]]

\* `[...ratings].sort(...)`: the heap after it; a new array, sortedRatings, holds
\* the elements of the array at ref in ascending order, and no other array changes
SortedCopy(h, ref) ==
    [r \in Refs \cup {"sortedRatings"} |->
        IF r = "sortedRatings" THEN ArraySort(h[ref]) ELSE h[r]]

\* `currentRequired < size`: a size equal to the current is passed over
FitsStrictly(currentRequired, size) == Lt(currentRequired, size)

\* `currentRequired <= size`
Fits(currentRequired, size) == Leq(currentRequired, size)

\* the loop, falling back to the largest size when none fits
RECURSIVE FirstFitOrLargest(_, _, _)
FirstFitOrLargest(sortedRatings, i, currentRequired) ==
    IF i > Len(sortedRatings)
    THEN (IF sortedRatings = << >> THEN Absent ELSE Some(sortedRatings[Len(sortedRatings)]))
    ELSE IF Leq(currentRequired, sortedRatings[i]) THEN Some(sortedRatings[i])
    ELSE FirstFitOrLargest(sortedRatings, i + 1, currentRequired)

\* the loop over sortedRatings from index i on: the first size that fits, if any
RECURSIVE FirstFit(_, _, _)
FirstFit(sortedRatings, i, currentRequired) ==
    IF i > Len(sortedRatings) THEN Absent
    ELSE IF Fits(currentRequired, sortedRatings[i]) THEN Some(sortedRatings[i])
    ELSE FirstFit(sortedRatings, i + 1, currentRequired)

\* The call on the heap h: its outcome, and the heap it leaves (the local array
\* sortedRatings is dropped when the call ends).  The argument customRatings,
\* when given, is a reference to the caller's array.
suggestMCBSize(h, wattage, voltage, options) ==
    LET standard == OrDefault(Field(options, "standard"), IEC_60898_1)
        customRatings == Field(options, "customRatings")
        isThreePhase == OrDefault(Field(options, "isThreePhase"), FALSE)
    IN  IF NotPositive(wattage, voltage)
        THEN [ret |-> Throw([message |-> "Wattage and voltage must be positive numbers."]),
              heap |-> h]
        ELSE LET currentRequired == CurrentRequired(wattage, voltage, isThreePhase)
                 h2 == SortedCopy(h, RatingsRef(standard, customRatings))
                 found == FirstFit(h2["sortedRatings"], 1, currentRequired)
             IN  [ret |-> IF found # Absent
                          THEN Return(found[1])
                          ELSE Throw([message |-> "Required current exceeds available MCB sizes",
                                      current |-> toFixed2(currentRequired),
                                      standard |-> standard]),
                  heap |-> [r \in Refs |-> h2[r]]]

----------------------------------------------------------------------------
(* The arguments the caller uses *)

Voltages == {N(-230), N(0), N(1), N(230), N(400)}

Currents == {N(-5), N(0), Q(1, 2), N(10)}

PowerFactors ==
    {Absent, Some(Q(-1, 2)), Some(N(0)), Some(Q(9, 10)), Some(N(1)), Some(Q(101, 100))}

\* the last one is calculatePower(400, 10, 1, {isThreePhase: true})
Wattages ==
    {N(-100), N(0), N(800), N(1100), N(2300), N(2400), N(16000), N(30000),
     Mul(Mul(Mul(N(400), Sqrt3), N(10)), N(1))}

OptBoolean == {Absent, Some(FALSE), Some(TRUE)}

CalcPowerOptions == {Absent} \cup {Some([isThreePhase |-> t]) : t \in OptBoolean}

MCBSizeOptions ==
    {Absent} \cup
    {Some([standard |-> s, customRatings |-> c, isThreePhase |-> t]) :
        s \in {Absent} \cup {Some(x) : x \in MCBStandard},
        c \in {Absent, Some("customRatings")},
        t \in OptBoolean}

\* the ratings the caller puts in its own array
CustomPool == {N(5), N(10), N(15), N(20)}

\* every array of at most MaxCustomLen different ratings among them, in any order
CustomTables ==
    UNION {{t \in [1..n -> CustomPool] : \A i, j \in 1..n : t[i] = t[j] => i = j} :
              n \in 0..MaxCustomLen}

\* around each threshold of getPowerLabel, and zero, a negative and a huge wattage
Powers ==
    {Big(-1000000, 0), Big(-1, 999999), Big(0, 0), Big(0, 500),
     Big(0, 999), Big(0, 1000), Big(0, 1001),
     Big(0, 999999), Big(1, 0), Big(1, 1),
     Big(999, 999999), Big(1000, 0), Big(1000, 1),
     Big(999999, 999999), Big(1000000, 0), Big(1000000, 1), Big(5000000, 0)}

----------------------------------------------------------------------------
(* The Calculator component *)

\* The value of the "Standard MCB Size" select: "" (nothing selected), "custom",
\* or the text of a rating.  The text of a rating is its decimal numeral, kept as
\* its integer part and its first decimal (no built-in rating has more).
EmptyString == [kind |-> "empty", units |-> 0, tenths |-> 0]
CustomString == [kind |-> "custom", units |-> 0, tenths |-> 0]

\* rating.toString()
NumberToString(x) ==
    [kind |-> "rating", units |-> x.a \div x.d, tenths |-> ((10 * x.a) \div x.d) % 10]

\* Number(text) of the text of a rating
StringToNumber(t) == Q(10 * t.units + t.tenths, 10)

\* Number(v) of a field that holds a number or "": Number("") is 0
NumberOf(field) == OrDefault(field, N(0))

\* the state after useState(...): an empty form and nothing shown
InitialForm ==
    [voltage |-> Absent, mcbSize |-> Absent, standardMcb |-> EmptyString,
     mcbStandard |-> IEC_60898_1, powerFactor |-> N(1), isThreePhase |-> FALSE,
     result |-> Absent, suggestedMCBSize |-> Absent, message |-> Absent,
     pressed |-> Absent, uncaught |-> Absent]

\* setMessage({type: "error", text}); setResult(null); return
Rejected(u, text) ==
    [u EXCEPT !.message = Some([type |-> "error", text |-> text]),
              !.result = Absent]

\* `standardMcb && standardMcb !== "custom" ? Number(standardMcb) : mcbSize`
EffectiveMcbSize(u) ==
    IF u.standardMcb.kind = "rating" THEN Some(StringToNumber(u.standardMcb)) ELSE u.mcbSize

\* the power factor check of calcPower
PowerFactorOutOfRange(powerFactor) == Lt(powerFactor, N(0)) \/ Gt(powerFactor, N(1))

\* calcPower on the form u and the heap h: the state it leaves.  pressed keeps
\* the form values it read; uncaught is the Error that left calcPower, if any.
calcPower(u, h) ==
    LET effectiveMcbSize == EffectiveMcbSize(u)
        v == [u EXCEPT !.uncaught = Absent,
                       !.pressed = Some([voltage |-> u.voltage, size |-> effectiveMcbSize,
                                         standardMcb |-> u.standardMcb,
                                         mcbStandard |-> u.mcbStandard,
                                         powerFactor |-> u.powerFactor,
                                         isThreePhase |-> u.isThreePhase])]
    IN  IF \/ u.voltage = Absent
           \/ (effectiveMcbSize = Absent /\ u.standardMcb.kind \in {"custom", "empty"})
        THEN Rejected(v, "Please enter voltage and select an MCB size")
        ELSE IF Leq(NumberOf(u.voltage), N(0)) \/ Leq(NumberOf(effectiveMcbSize), N(0))
        THEN Rejected(v, "Voltage and MCB size must be positive numbers")
        ELSE IF PowerFactorOutOfRange(u.powerFactor)
        THEN Rejected(v, "Power factor must be between 0 and 1")
        ELSE LET power == calculatePower(NumberOf(u.voltage), NumberOf(effectiveMcbSize),
                                         Some(u.powerFactor),
                                         Some([isThreePhase |-> Some(u.isThreePhase)]))
             IN  IF power.error # Absent
                 THEN [v EXCEPT !.uncaught = power.error]
                 ELSE LET size == suggestMCBSize(h, power.value[1], NumberOf(u.voltage),
                                      Some([isThreePhase |-> Some(u.isThreePhase),
                                            standard |-> Some(u.mcbStandard),
                                            customRatings |-> Absent])).ret
                          lastMCBSize == h[u.mcbStandard][Len(h[u.mcbStandard])]
                      IN  IF size.error # Absent
                          THEN [v EXCEPT !.result = power.value,
                                         !.suggestedMCBSize = Some(lastMCBSize),
                                         !.message = Some([type |-> "error",
                                                           text |-> size.error[1].message])]
                          ELSE [v EXCEPT !.result = power.value,
                                         !.suggestedMCBSize = size.value,
                                         !.message = Some([type |-> "info",
                                                           text |-> "Calculation successful"])]

----------------------------------------------------------------------------
(* The caller *)

NoCall == [op |-> "none"]
NoRet == [value |-> Absent, error |-> Absent]
NoEarlier == [call |-> NoCall, ret |-> NoRet]

Init ==
    /\ heap = [r \in Refs |-> IF r \in MCBStandard THEN MCB_RATING_PRESETS[r] ELSE << >>]
    /\ customLiteral = << >>
    /\ pc = "idle"
    /\ call = NoCall
    /\ ret = NoRet
    /\ earlier = NoEarlier
    /\ ui = InitialForm

\* the call kept was given the caller's array
KeptCustom ==
    /\ earlier.call.op = "suggestMCBSize"
    /\ earlier.call.options # Absent
    /\ earlier.call.options[1].customRatings # Absent

\* the caller creates the array it will pass as customRatings; a call kept that
\* was given the array this one replaces is dropped, its argument being gone
NewCustomRatings ==
    /\ pc = "idle"
    /\ \E t \in CustomTables :
        /\ heap' = [heap EXCEPT !["customRatings"] = t]
        /\ customLiteral' = t
    /\ earlier' = IF KeptCustom THEN NoEarlier ELSE earlier
    /\ UNCHANGED <<pc, call, ret, ui>>

CallGetPowerLabel ==
    /\ pc = "idle"
    /\ \E power \in Powers, longLabel \in OptBoolean :
        /\ call' = [op |-> "getPowerLabel", power |-> power, longLabel |-> longLabel]
        /\ ret' = Return(getPowerLabel(power, longLabel))
    /\ pc' = "returned"
    /\ UNCHANGED <<heap, customLiteral, earlier, ui>>

CallCalculatePower ==
    /\ pc = "idle"
    /\ \E voltage \in Voltages, current \in Currents,
          powerFactor \in PowerFactors, options \in CalcPowerOptions :
        /\ call' = [op |-> "calculatePower", voltage |-> voltage, current |-> current,
                    powerFactor |-> powerFactor, options |-> options]
        /\ ret' = calculatePower(voltage, current, powerFactor, options)
    /\ pc' = "returned"
    /\ UNCHANGED <<heap, customLiteral, earlier, ui>>

CallSuggestMCBSize ==
    /\ pc = "idle"
    /\ \E wattage \in Wattages, voltage \in Voltages, options \in MCBSizeOptions :
        LET done == suggestMCBSize(heap, wattage, voltage, options)
        IN  /\ call' = [op |-> "suggestMCBSize", wattage |-> wattage, voltage |-> voltage,
                        options |-> options]
            /\ ret' = done.ret
            /\ heap' = done.heap
    /\ pc' = "returned"
    /\ UNCHANGED <<customLiteral, earlier, ui>>

\* the caller has used the outcome and is ready for its next call
Resume ==
    /\ pc = "returned"
    /\ pc' = "idle"
    /\ call' = NoCall
    /\ ret' = NoRet
    /\ UNCHANGED <<heap, customLiteral, earlier, ui>>

Next ==
    \/ NewCustomRatings
    \/ CallGetPowerLabel
    \/ CallCalculatePower
    \/ CallSuggestMCBSize
    \/ Resume

Spec == Init /\ [][Next]_vars

----------------------------------------------------------------------------
(* A caller that repeats calls and compares their outcomes *)

\* the caller keeps the call just made and its outcome
Remember ==
    /\ pc = "returned"
    /\ earlier' = [call |-> call, ret |-> ret]
    /\ UNCHANGED <<heap, customLiteral, pc, call, ret, ui>>

\* the calls this caller makes are a few of each operation
RepeatedPowers == {Big(0, 1000)}
RepeatedLongLabels == {Absent, Some(TRUE)}
RepeatedVoltages == {N(0), N(230)}
RepeatedCurrents == {N(10)}
RepeatedPowerFactors == {Some(Q(9, 10))}
RepeatedPowerOptions == {Absent, Some([isThreePhase |-> Some(TRUE)])}
RepeatedWattages == {N(1100), N(30000)}
RepeatedSizeOptions ==
    {Absent,
     Some([standard |-> Absent, customRatings |-> Some("customRatings"),
           isThreePhase |-> Absent]),
     Some([standard |-> Some(IEC_60947_2), customRatings |-> Some("customRatings"),
           isThreePhase |-> Some(TRUE)])}

RepeatGetPowerLabel ==
    /\ pc = "idle"
    /\ \E power \in RepeatedPowers, longLabel \in RepeatedLongLabels :
        /\ call' = [op |-> "getPowerLabel", power |-> power, longLabel |-> longLabel]
        /\ ret' = Return(getPowerLabel(power, longLabel))
    /\ pc' = "returned"
    /\ UNCHANGED <<heap, customLiteral, earlier, ui>>

RepeatCalculatePower ==
    /\ pc = "idle"
    /\ \E voltage \in RepeatedVoltages, current \in RepeatedCurrents,
          powerFactor \in RepeatedPowerFactors, options \in RepeatedPowerOptions :
        /\ call' = [op |-> "calculatePower", voltage |-> voltage, current |-> current,
                    powerFactor |-> powerFactor, options |-> options]
        /\ ret' = calculatePower(voltage, current, powerFactor, options)
    /\ pc' = "returned"
    /\ UNCHANGED <<heap, customLiteral, earlier, ui>>

RepeatSuggestMCBSize ==
    /\ pc = "idle"
    /\ \E wattage \in RepeatedWattages, voltage \in RepeatedVoltages,
          options \in RepeatedSizeOptions :
        LET done == suggestMCBSize(heap, wattage, voltage, options)
        IN  /\ call' = [op |-> "suggestMCBSize", wattage |-> wattage, voltage |-> voltage,
                        options |-> options]
            /\ ret' = done.ret
            /\ heap' = done.heap
    /\ pc' = "returned"
    /\ UNCHANGED <<customLiteral, earlier, ui>>

NextRepeating ==
    \/ NewCustomRatings
    \/ RepeatGetPowerLabel
    \/ RepeatCalculatePower
    \/ RepeatSuggestMCBSize
    \/ Remember
    \/ Resume

SpecRepeating == Init /\ [][NextRepeating]_vars

----------------------------------------------------------------------------
(* The user of the Calculator *)

\* what the user types in the voltage and the custom size inputs
TypedVoltages == {Absent, Some(N(0)), Some(N(230))}
TypedSizes == {Absent, Some(N(12))}

\* the positions of the slider the user leaves it at, both ends among them
SliderValues == {N(0), N(1)}

\* the entries of the size select the user picks, besides "custom": the first
\* and the last rating of the standard selected
PickedRatings(standard) ==
    {MCB_RATING_PRESETS[standard][i] : i \in {1, Len(MCB_RATING_PRESETS[standard])}}

\* nothing but an event of the Calculator changes the form
FormOnly == UNCHANGED <<heap, customLiteral, pc, call, ret, earlier>>

\* onChange of the voltage input
TypeVoltage ==
    /\ \E v \in TypedVoltages : ui' = [ui EXCEPT !.voltage = v]
    /\ FormOnly

\* handleMcbStandardChange
handleMcbStandardChange ==
    /\ \E value \in MCBStandard :
        ui' = [ui EXCEPT !.mcbStandard = value, !.standardMcb = EmptyString]
    /\ FormOnly

\* handleStandardMcbChange, with an option of getMcbSizeOptions
handleStandardMcbChange ==
    /\ \/ ui' = [ui EXCEPT !.standardMcb = CustomString]
       \/ \E rating \in PickedRatings(ui.mcbStandard) :
            ui' = [ui EXCEPT !.standardMcb = NumberToString(rating), !.mcbSize = Absent]
    /\ FormOnly

\* onChange of the custom size input, which is disabled while a rating is selected
TypeMcbSize ==
    /\ ui.standardMcb.kind # "rating"
    /\ \E size \in TypedSizes :
        ui' = [ui EXCEPT !.mcbSize = size,
                         !.standardMcb = IF size # Absent THEN CustomString ELSE @]
    /\ FormOnly

\* onValueChange of the power factor slider
SlidePowerFactor ==
    /\ \E value \in SliderValues : ui' = [ui EXCEPT !.powerFactor = value]
    /\ FormOnly

\* onCheckedChange of the 3-phase checkbox
CheckThreePhase ==
    /\ \E checked \in BOOLEAN : ui' = [ui EXCEPT !.isThreePhase = checked]
    /\ FormOnly

\* onClick of the Calculate button
PressCalculate ==
    /\ ui' = calcPower(ui, heap)
    /\ FormOnly

NextCalculator ==
    \/ TypeVoltage
    \/ handleMcbStandardChange
    \/ handleStandardMcbChange
    \/ TypeMcbSize
    \/ SlidePowerFactor
    \/ CheckThreePhase
    \/ PressCalculate

SpecCalculator == Init /\ [][NextCalculator]_vars

----------------------------------------------------------------------------
(* What the properties speak of *)

Range(xs) == {xs[i] : i \in 1..Len(xs)}

\* the orders in which the indices of an array of n elements can be taken
IndexOrders ==
    [n \in 0..MaxCustomLen |->
        {f \in [1..n -> 1..n] : \A i, j \in 1..n : f[i] = f[j] => i = j}]

\* every reordering of the array xs
Reorderings(xs) == {[i \in 1..Len(xs) |-> xs[p[i]]] : p \in IndexOrders[Len(xs)]}

Returned(op) == pc = "returned" /\ call.op = op
Failed(kind) == ret.error # Absent /\ ErrorKind(ret.error[1]) = kind

\* the arguments of the suggestMCBSize call just made, with the documented defaults
ArgGiven(f) == call.options # Absent /\ call.options[1][f] # Absent
ArgStandard == IF ArgGiven("standard") THEN call.options[1].standard[1] ELSE IEC_60898_1
ArgThreePhase == ArgGiven("isThreePhase") /\ call.options[1].isThreePhase[1]
ArgCustom == ArgGiven("customRatings")

\* the table the call was to use, with the elements it was created with
TableUsed == IF ArgCustom THEN customLiteral ELSE MCB_RATING_PRESETS[ArgStandard]

ValidSizeArgs == Gt(call.wattage, N(0)) /\ Gt(call.voltage, N(0))

\* wattage / voltage, times sqrt(3) in three-phase
RequiredCurrent ==
    IF ArgThreePhase THEN Div(Mul(Sqrt3, call.wattage), call.voltage)
    ELSE Div(call.wattage, call.voltage)

\* the entries of a table that carry the current
Sufficient(table, current) == {t \in Range(table) : Geq(t, current)}

\* C1: with valid wattage and voltage and a table holding an entry >= the
\* required current, suggestMCBSize returns a member of the table used that is
\* >= the required current and is the smallest such member; an entry equal to
\* the required current is the one returned.
C1_SmallestSufficient ==
    (Returned("suggestMCBSize") /\ ValidSizeArgs
        /\ Sufficient(TableUsed, RequiredCurrent) # {})
    => /\ ret.error = Absent
       /\ ret.value # Absent
       /\ ret.value[1] \in Range(TableUsed)
       /\ Geq(ret.value[1], RequiredCurrent)
       /\ \A t \in Range(TableUsed) :
            ~(Leq(RequiredCurrent, t) /\ Lt(t, ret.value[1]))
       /\ (RequiredCurrent \in Range(TableUsed) => ret.value[1] = RequiredCurrent)

\* the tie: 2300 W at 230 V needs exactly 10 A, and 10 is returned from the
\* unsorted custom array [20, 10, 5]
C1_Witness ==
    /\ Returned("suggestMCBSize") /\ ValidSizeArgs /\ ArgCustom
    /\ TableUsed = <<N(20), N(10), N(5)>>
    /\ RequiredCurrent = N(10)
    /\ ret.value = Some(N(10))

\* C2: with valid wattage and voltage, suggestMCBSize fails with OutOfRange
\* exactly when no entry of the table used (built-in or custom, the empty custom
\* table included) is >= the required current; then nothing is returned and the
\* failure carries the required current (as printed with two decimals) and the
\* standard name.
C2_OutOfRange ==
    (Returned("suggestMCBSize") /\ ValidSizeArgs)
    => /\ Failed("OutOfRange") <=> Sufficient(TableUsed, RequiredCurrent) = {}
       /\ ~(ret.value # Absent /\ ret.error # Absent)
       /\ Failed("OutOfRange")
            => /\ ret.value = Absent
               /\ ret.error[1].current = toFixed2(RequiredCurrent)
               /\ ret.error[1].standard = ArgStandard

\* three-phase 30000 W at 400 V needs 129.90 A, more than the 125 A the
\* residential table ends with
C2_Witness ==
    /\ Returned("suggestMCBSize") /\ ValidSizeArgs /\ ~ArgCustom
    /\ ArgThreePhase /\ ArgStandard = IEC_60898_1
    /\ call.wattage = N(30000) /\ call.voltage = N(400)
    /\ Failed("OutOfRange")
    /\ ret.error[1].current = 12990

\* the arguments of the calculatePower call just made, with the documented defaults
ArgPowerFactor == IF call.powerFactor = Absent THEN N(1) ELSE call.powerFactor[1]
ArgPowerThreePhase ==
    /\ call.options # Absent
    /\ call.options[1].isThreePhase # Absent
    /\ call.options[1].isThreePhase[1]

ValidPowerArgs ==
    /\ Gt(call.voltage, N(0)) /\ Gt(call.current, N(0))
    /\ Gt(ArgPowerFactor, N(0)) /\ Leq(ArgPowerFactor, N(1))

SinglePhasePower == Mul(Mul(call.voltage, call.current), ArgPowerFactor)

\* C3: for voltage > 0, current > 0 and a power factor in (0, 1] (1 when
\* omitted), calculatePower returns voltage * current * powerFactor in
\* single-phase (the flag false or omitted) and sqrt(3) times that in
\* three-phase; the result is never negative.
C3_PowerFormula ==
    (Returned("calculatePower") /\ ValidPowerArgs)
    => /\ ret.error = Absent
       /\ ret.value # Absent
       /\ ~ArgPowerThreePhase => ret.value[1] = SinglePhasePower
       /\ ArgPowerThreePhase => ret.value[1] = Mul(Sqrt3, SinglePhasePower)
       /\ Geq(ret.value[1], N(0))

\* calculatePower(400, 10, 0.9, {isThreePhase: true}) = 3600 * sqrt(3)
C3_Witness ==
    /\ Returned("calculatePower") /\ ArgPowerThreePhase
    /\ call.voltage = N(400) /\ call.current = N(10) /\ call.powerFactor = Some(Q(9, 10))
    /\ ret.value = Some([a |-> 0, b |-> 3600, d |-> 1])

\* C4: calculatePower fails with InvalidInput, and returns nothing, exactly when
\* voltage <= 0 or current <= 0 or powerFactor <= 0 or powerFactor > 1, whatever
\* the phase flag; a power factor of 0 is rejected and one of 1 accepted.
C4_PowerInvalidInput ==
    Returned("calculatePower")
    => /\ Failed("InvalidInput") <=> ~ValidPowerArgs
       /\ ret.error # Absent <=> ret.value = Absent
       /\ ret.error # Absent => Failed("InvalidInput")
       /\ ArgPowerFactor = N(0) => Failed("InvalidInput")
       /\ (Gt(call.voltage, N(0)) /\ Gt(call.current, N(0)) /\ ArgPowerFactor = N(1))
            => ret.error = Absent

\* a power factor of 0 with a valid voltage and current, in three-phase
C4_Witness ==
    /\ Returned("calculatePower") /\ ArgPowerThreePhase
    /\ Gt(call.voltage, N(0)) /\ Gt(call.current, N(0))
    /\ call.powerFactor = Some(N(0))
    /\ Failed("InvalidInput") /\ ret.value = Absent

\* C5: suggestMCBSize fails with InvalidInput exactly when wattage <= 0 or
\* voltage <= 0, whatever the standard, the custom table and the phase flag; the
\* check comes before the table lookup, so such a call never gives OutOfRange
\* or a rating, even with an empty or too small table.
C5_SizeInvalidInput ==
    Returned("suggestMCBSize")
    => /\ Failed("InvalidInput") <=> ~ValidSizeArgs
       /\ ~ValidSizeArgs => (ret.value = Absent /\ ~Failed("OutOfRange"))

\* a voltage of 0 with the empty custom table
C5_Witness ==
    /\ Returned("suggestMCBSize") /\ ArgCustom /\ TableUsed = << >>
    /\ Gt(call.wattage, N(0)) /\ call.voltage = N(0)
    /\ Failed("InvalidInput") /\ ret.value = Absent

\* the outcome of the call just made, had the caller's array held t instead
WithCustom(t) ==
    suggestMCBSize([heap EXCEPT !["customRatings"] = t],
                   call.wattage, call.voltage, call.options).ret

\* C6: the outcome of suggestMCBSize does not depend on the order of the custom
\* ratings: with the same wattage, voltage and phase flag, every reordering of
\* the custom array gives the same rating, or fails with OutOfRange as well.
C6_OrderIndependent ==
    (Returned("suggestMCBSize") /\ ArgCustom)
    => \A t \in Reorderings(TableUsed) : WithCustom(t) = ret

\* [20, 5, 10] with 1100 W at 230 V (4.78 A) gives 5
C6_Witness ==
    /\ Returned("suggestMCBSize") /\ ArgCustom
    /\ TableUsed = <<N(20), N(5), N(10)>>
    /\ call.wattage = N(1100) /\ call.voltage = N(230) /\ ~ArgThreePhase
    /\ ret.value = Some(N(5))

\* C7: suggestMCBSize(16000, 400, {standard: IEC_60947_2, isThreePhase: true})
\* returns 160 from the built-in industrial table.
C7_ThreePhaseIndustrial ==
    (/\ Returned("suggestMCBSize") /\ ~ArgCustom
     /\ call.wattage = N(16000) /\ call.voltage = N(400)
     /\ ArgStandard = IEC_60947_2 /\ ArgThreePhase
     /\ heap[IEC_60947_2] = MCB_RATING_PRESETS[IEC_60947_2])
    => ret.value = Some(N(160))

\* the outcome of the call just made, had it named the standard s (or none)
WithStandard(s) ==
    suggestMCBSize(heap, call.wattage, call.voltage,
                   Some([call.options[1] EXCEPT !.standard = s])).ret

\* the rating returned or the failure kind, without the failure's text
Verdict(r) ==
    [rating |-> r.value,
     failure |-> IF r.error = Absent THEN "none" ELSE ErrorKind(r.error[1])]

\* the smallest entry of a table that carries the current
Ceiling(table, current) ==
    CHOOSE r \in Sufficient(table, current) :
        \A t \in Sufficient(table, current) : Leq(r, t)

\* C8: a custom table overrides the standard: with the same wattage, voltage,
\* phase flag and custom table, every standard gives the same rating or the same
\* OutOfRange, and the rating is a member of the custom table; without a custom
\* table the built-in table of the standard given (IEC_60898-1 when omitted) is
\* the one used.
C8_CustomOverridesStandard ==
    (Returned("suggestMCBSize") /\ ValidSizeArgs)
    => /\ ArgCustom
            => /\ \A s \in {Absent} \cup {Some(x) : x \in MCBStandard} :
                    Verdict(WithStandard(s)) = Verdict(ret)
               /\ ret.value # Absent => ret.value[1] \in Range(customLiteral)
       /\ ~ArgCustom
            => LET builtIn == MCB_RATING_PRESETS[ArgStandard]
               IN  IF Sufficient(builtIn, RequiredCurrent) = {}
                   THEN Failed("OutOfRange")
                   ELSE ret.value = Some(Ceiling(builtIn, RequiredCurrent))

\* 5 is in no built-in table, and is returned whichever standard is named
C8_Witness ==
    /\ Returned("suggestMCBSize") /\ ValidSizeArgs /\ ArgCustom
    /\ ArgGiven("standard") /\ ArgStandard = IEC_60947_2
    /\ ret.value = Some(N(5))
    /\ \A s \in MCBStandard : N(5) \notin Range(MCB_RATING_PRESETS[s])

ShortLabels == <<"W", "kW", "MW", "GW", "TW">>
LongLabels == <<"Watts", "Kilo Watts", "Mega Watts", "Giga Watts", "Tera Watts">>

\* 1 for a power below 10^3, 2 from 10^3 on, 3 from 10^6 on, 4 from 10^9 on,
\* 5 from 10^12 on
Tier(power) ==
    1 + Cardinality({q \in {Big(0, 1000), Big(1, 0), Big(1000, 0), Big(1000000, 0)} :
                        BigGeq(power, q)})

C10_TablesUnchanged ==
    /\ \A s \in MCBStandard : heap[s] = MCB_RATING_PRESETS[s]
    /\ heap["customRatings"] = customLiteral

\* a rating was selected from the unsorted array [20, 5, 10]
C10_Witness ==
    /\ Returned("suggestMCBSize") /\ ArgCustom
    /\ customLiteral = <<N(20), N(5), N(10)>>
    /\ ret.value # Absent

----------------------------------------------------------------------------
(* The Calculator chains the two functions *)

\* the form values the last Calculate read (only when there was one)
Pressed == ui.pressed[1]

\* the last Calculate passed the form checks with a rating picked in the select
\* and the power factor at 1: it called calculatePower(V, I, 1, {isThreePhase})
\* and then suggestMCBSize with that power, V, the standard and the same phase
ChainedAtUnity ==
    /\ ui.pressed # Absent
    /\ Pressed.voltage # Absent /\ Gt(Pressed.voltage[1], N(0))
    /\ Pressed.standardMcb.kind = "rating"
    /\ Pressed.size[1] \in Range(MCB_RATING_PRESETS[Pressed.mcbStandard])
    /\ Pressed.powerFactor = N(1)

\* C12: computing the power of a voltage V > 0 and a rating I of the selected
\* built-in table at power factor 1, and then asking for the breaker of that
\* power at V with the same standard and phase setting, gives back exactly I,
\* in single-phase and in three-phase.
C12_RoundTrip ==
    ChainedAtUnity =>
        /\ ui.uncaught = Absent
        /\ ui.message = Some([type |-> "info", text |-> "Calculation successful"])
        /\ ui.suggestedMCBSize = Pressed.size

\* C13: whatever the form holds, the slider at either end included, Calculate
\* ends with a result shown or an error message set, and no Error of the engine
\* leaves calcPower uncaught.
C13_EveryFailureHandled ==
    /\ ui.uncaught = Absent
    /\ ui.pressed # Absent =>
          \/ ui.result # Absent
          \/ (ui.message # Absent /\ ui.message[1].type = "error")

----------------------------------------------------------------------------
(* The rating follows the load *)

\* a caller that sizes breakers only
NextSizing == NewCustomRatings \/ CallSuggestMCBSize \/ Resume

SpecSizing == Init /\ [][NextSizing]_vars

\* the outcome of the call just made, had its wattage been w1, its voltage v2,
\* or its phase setting three-phase
WithWattage(w1) == suggestMCBSize(heap, w1, call.voltage, call.options).ret
WithVoltage(v2) == suggestMCBSize(heap, call.wattage, v2, call.options).ret
InThreePhase ==
    suggestMCBSize(heap, call.wattage, call.voltage,
                   Some([standard |-> Field(call.options, "standard"),
                         customRatings |-> Field(call.options, "customRatings"),
                         isThreePhase |-> Some(TRUE)])).ret

\* the outcome r is a rating, and one not above the rating returned
RatingNotAbove(r, rating) == r.value # Absent /\ Leq(r.value[1], rating)

\* C14: with the table and the phase setting fixed, a call that returns a rating
\* returns one at least as large as the call of any smaller valid wattage at the
\* same voltage, which returns a rating too, and one at least as large as the call
\* of any larger voltage at the same wattage; the three-phase call of the same
\* wattage, voltage and table never returns a smaller rating than the single-phase
\* call, and fails with OutOfRange whenever the single-phase call does.
C14_MonotoneInLoad ==
    (Returned("suggestMCBSize") /\ ValidSizeArgs) =>
        /\ ret.value # Absent =>
              /\ \A w1 \in Wattages :
                    (Gt(w1, N(0)) /\ Lt(w1, call.wattage)) =>
                        RatingNotAbove(WithWattage(w1), ret.value[1])
              /\ \A v2 \in Voltages :
                    Gt(v2, call.voltage) => RatingNotAbove(WithVoltage(v2), ret.value[1])
        /\ ~ArgThreePhase =>
              LET three == InThreePhase
              IN  /\ (ret.value # Absent /\ three.value # Absent) =>
                        Geq(three.value[1], ret.value[1])
                  /\ Failed("OutOfRange") =>
                        /\ three.error # Absent
                        /\ ErrorKind(three.error[1]) = "OutOfRange"

\* 2300 W at 230 V on the residential table: 10 in single-phase, where 800 W
\* gives 4 and 400 V gives 6; 20 in three-phase
C14_Witness ==
    /\ Returned("suggestMCBSize") /\ ~ArgCustom /\ ~ArgThreePhase
    /\ ArgStandard = IEC_60898_1
    /\ call.wattage = N(2300) /\ call.voltage = N(230)
    /\ ret.value = Some(N(10))
    /\ WithWattage(N(800)).value = Some(N(4))
    /\ WithVoltage(N(400)).value = Some(N(6))
    /\ InThreePhase.value = Some(N(20))

============================================================================
